---- MODULE Spec2Model ----
(***************************************************************************)
(* A model of aws_log_parser's disk-backed, TTL-expiring memoization       *)
(* cache (src/aws_log_parser/cache.py): the Cache store (get, set, clear,  *)
(* clear_expired), the key derivation (_get_cache_key) and the `cached`    *)
(* decorator's wrapper.                                                    *)
(*                                                                         *)
(* Python values are records [t |-> type tag, v |-> sequence of tokens].   *)
(* Text is a sequence of one-character strings, so that str(), the f-string*)
(* "k=v" and ":".join are computed character by character.                 *)
(***************************************************************************)
EXTENDS Integers, Sequences, FiniteSets, TLC

VARIABLES
    files,      \* the cache directory: key -> [mtime, data] for <key>.pickle
    now,        \* the clock read by time.time() and stamped as st_mtime
    ttl,        \* Cache.ttl, fixed at construction
    last,       \* what the last operation was, what it was given and what it returned
    written,    \* history: key -> [t0, v] of the last completed set still on disk
    everSet,    \* history: the keys set() was ever called for
    wiped,      \* history: the keys set before a clear() and not set again since
    kin,        \* key derivation: the pair of calls whose keys are compared
    kout,       \* key derivation: their keys (<<>> until computed)
    proc,       \* shared directory: each process's operation and where it stands
    client      \* AWS client: an AwsClient's fields and what its accesses did

vars == <<files, now, ttl, last, written, everSet, wiped, kin, kout, proc, client>>

---------------------------------------------------------------------------
(* Bounds of the model *)

\* the clock runs from 0 to MaxTime
MaxTime == 2
\* Cache(ttl=...) is constructed with a ttl in 0..MaxTTL
MaxTTL == 1
\* the number of tokens one read or write call on a file transfers
ChunkLen == 2
\* aws_session is read at most MaxAccess times on one AwsClient
MaxAccess == 3

---------------------------------------------------------------------------
(* Python values *)

Val(t, v) == [t |-> t, v |-> v]

None == Val("none", <<>>)
PyTrue == Val("bool", <<"T", "r", "u", "e">>)
PyFalse == Val("bool", <<"F", "a", "l", "s", "e">>)
PyInt(digits) == Val("int", digits)
PyStr(chars) == Val("str", chars)

abc == <<"a", "b", "c">>

\* what the decorated function may return: scalars, realized aggregates,
\* one-shot generators (one of which raises while it is drained) and an
\* object that is neither iterable nor picklable (a lambda, a lock)
Results ==
    { PyInt(<<"4", "2">>), None, PyStr(abc),
      Val("list", abc), Val("tuple", abc), Val("dict", abc), Val("set", abc),
      Val("gen", abc), Val("gen_err", <<"a">>), Val("obj", <<>>) }

\* hasattr(result, '__iter__')
HasIter(val) == val.t \in {"str", "list", "tuple", "dict", "set", "gen", "gen_err"}

\* isinstance(result, (list, tuple, dict))
IsListTupleDict(val) == val.t \in {"list", "tuple", "dict"}

\* the items one iteration over val yields, for the n-th iteration (n >= 1):
\* a generator is exhausted by its first iteration
Iterate(val, n) == IF val.t \in {"gen", "gen_err"} /\ n > 1 THEN <<>> ELSE val.v

\* bool(val)
Truthy(val) ==
    CASE val.t = "none" -> FALSE
      [] val.t = "bool" -> val = PyTrue
      [] val.t = "int" -> val.v # <<"0">>
      [] val.t \in {"str", "list", "tuple", "dict", "set"} -> val.v # <<>>
      [] OTHER -> TRUE

---------------------------------------------------------------------------
(* pickle.dump and pickle.load *)

\* generators and the opaque object cannot be pickled
Picklable(val) == val.t \notin {"gen", "gen_err", "obj"}

\* the opcode that builds a value of each type
OpcodeOf(t) ==
    CASE t = "none" -> "NONE"
      [] t = "bool" -> "NEWBOOL"
      [] t = "int" -> "BININT"
      [] t = "str" -> "BINUNICODE"
      [] t = "list" -> "APPENDS"
      [] t = "tuple" -> "TUPLE"
      [] t = "dict" -> "SETITEMS"
      [] t = "set" -> "ADDITEMS"

TypeOfOpcode(op) ==
    CASE op = "NONE" -> "none"
      [] op = "NEWBOOL" -> "bool"
      [] op = "BININT" -> "int"
      [] op = "BINUNICODE" -> "str"
      [] op = "APPENDS" -> "list"
      [] op = "TUPLE" -> "tuple"
      [] op = "SETITEMS" -> "dict"
      [] op = "ADDITEMS" -> "set"

\* the byte stream pickle.dump writes: a protocol header, the payload, the
\* opcode that builds the value from it, and the terminating STOP
Dumps(val) == <<"PROTO">> \o val.v \o <<OpcodeOf(val.t), "STOP">>

Opcodes ==
    {"NONE", "NEWBOOL", "BININT", "BINUNICODE", "APPENDS", "TUPLE", "SETITEMS", "ADDITEMS"}

IsDigit(c) == c \in {"0", "1", "2", "3", "4", "5", "6", "7", "8", "9"}

\* pickle.load: [err |-> the exception raised or "none", val |-> the value];
\* it reads one pickle, up to the first STOP, and a stream that ends before
\* that is an EOFError (empty) or an UnpicklingError (truncated). A stream
\* that is no prefix of a pickle (bytes of two writes mixed) is an
\* UnpicklingError where an opcode is expected and is not found, a
\* ValueError where the payload cannot be converted to the opcode's type,
\* and otherwise loads as a value nobody wrote.
Loads(data) ==
    IF Len(data) = 0 THEN [err |-> "EOFError", val |-> None]
    ELSE IF \A i \in 1..Len(data) : data[i] # "STOP"
        THEN [err |-> "UnpicklingError", val |-> None]
    ELSE LET stop == CHOOSE i \in 1..Len(data) :
                        data[i] = "STOP" /\ \A j \in 1..(i - 1) : data[j] # "STOP"
         IN  IF stop < 3 \/ data[1] # "PROTO" \/ data[stop - 1] \notin Opcodes
             THEN [err |-> "UnpicklingError", val |-> None]
             ELSE LET payload == SubSeq(data, 2, stop - 2)
                      t == TypeOfOpcode(data[stop - 1])
                  IN  IF \E i \in 1..Len(payload) : payload[i] \in Opcodes \cup {"PROTO", "NUL"}
                      THEN [err |-> "UnpicklingError", val |-> None]
                      ELSE IF t = "int" /\ \E i \in 1..Len(payload) : ~IsDigit(payload[i])
                      THEN [err |-> "ValueError", val |-> None]
                      ELSE [err |-> "none", val |-> Val(t, payload)]

---------------------------------------------------------------------------
(* Cache._get_cache_key and Cache._get_cache_path *)

\* ord(c) for the characters the model uses
Ord(c) ==
    CASE c = "1" -> 49 [] c = "2" -> 50 [] c = ":" -> 58 [] c = "=" -> 61
      [] c = "a" -> 97 [] c = "b" -> 98 [] c = "c" -> 99 [] c = "f" -> 102
      [] c = "g" -> 103 [] c = "x" -> 120 [] c = "y" -> 121 [] c = "z" -> 122
      [] OTHER -> 0

\* s < t for two strings
RECURSIVE StrLess(_, _)
StrLess(s, t) ==
    IF t = <<>> THEN FALSE
    ELSE IF s = <<>> THEN TRUE
    ELSE IF Ord(Head(s)) # Ord(Head(t)) THEN Ord(Head(s)) < Ord(Head(t))
    ELSE StrLess(Tail(s), Tail(t))

\* str(arg)
StrOf(val) == IF val.t = "none" THEN <<"N", "o", "n", "e">> ELSE val.v

\* the items left in call-site order
SortedItems_Unsorted(kwargs) == kwargs

\* insert one (name, value) item into a list of items sorted by name
RECURSIVE InsertSorted(_, _)
InsertSorted(item, items) ==
    IF items = <<>> THEN <<item>>
    ELSE IF StrLess(item[1], Head(items)[1]) THEN <<item>> \o items
    ELSE <<Head(items)>> \o InsertSorted(item, Tail(items))

\* sorted(kwargs.items()): kwargs is the list of (name, value) items in
\* call-site order; names are unique, so values are never compared
RECURSIVE SortedItems(_)
SortedItems(kwargs) ==
    IF kwargs = <<>> THEN <<>>
    ELSE InsertSorted(Head(kwargs), SortedItems(Tail(kwargs)))

\* sep.join(parts)
RECURSIVE Join(_, _)
Join(sep, parts) ==
    IF parts = <<>> THEN <<>>
    ELSE IF Len(parts) = 1 THEN Head(parts)
    ELSE Head(parts) \o sep \o Join(sep, Tail(parts))

\* hashlib.md5(s).hexdigest(): a digest taken to be collision-free
Md5Hex(s) == <<"md5">> \o s

\* cache.py:31-39: args are the positional values (the function name first)
GetCacheKey(args, kwargs) ==
    LET sorted == SortedItems(kwargs)
        key_parts == [i \in 1..Len(args) |-> StrOf(args[i])]
                     \o [i \in 1..Len(sorted) |-> sorted[i][1] \o <<"=">> \o StrOf(sorted[i][2])]
        key_str == Join(<<":">>, key_parts)
    IN  Md5Hex(key_str)

\* every key stored in one file
GetCachePath_Shared(key) == <<"cache", ".pickle">>

\* cache.py:41-43
GetCachePath(key) == Append(key, ".pickle")

---------------------------------------------------------------------------
(* The store: Cache.get, Cache.set, Cache.clear, Cache.clear_expired *)

NoFiles == [p \in {} |-> [mtime |-> 0, data |-> <<>>]]

\* a file opened for appending: what it held is kept
OpenWb_Append(fs, t, path) ==
    [p \in DOMAIN fs \cup {path} |->
        IF p = path
        THEN [mtime |-> t, data |-> IF p \in DOMAIN fs THEN fs[p].data ELSE <<>>]
        ELSE fs[p]]

\* open(path, 'wb'): create or truncate, stamping the modification time
OpenWb(fs, t, path) ==
    [p \in DOMAIN fs \cup {path} |->
        IF p = path THEN [mtime |-> t, data |-> <<>>] ELSE fs[p]]

\* f.write(data) on the open file
WriteData(fs, t, path, data) ==
    [fs EXCEPT ![path] = [mtime |-> t, data |-> fs[path].data \o data]]

\* path.unlink()
Unlink(fs, path) == [p \in DOMAIN fs \ {path} |-> fs[p]]

\* an entry taken to expire as soon as its age reaches the ttl
IsStale_AtBoundary(t, mtime, T) == t - mtime >= T

\* cache.py:62: the test that makes get treat a file as expired
IsStale(t, mtime, T) == t - mtime > T

\* cache.py:68: except (pickle.PickleError, EOFError)
GetCatches(err) == err \in {"UnpicklingError", "EOFError"}

\* cache.py:45-70: <<hit, value>>; an exception that get does not catch
\* leaves it as <<FALSE, the exception>>
CacheGet(fs, t, T, key) ==
    LET cache_path == GetCachePath(key) IN
    IF cache_path \notin DOMAIN fs THEN <<FALSE, None>>
    ELSE IF IsStale(t, fs[cache_path].mtime, T) THEN <<FALSE, None>>
    ELSE LET r == Loads(fs[cache_path].data) IN
         IF GetCatches(r.err) THEN <<FALSE, None>>
         ELSE IF r.err # "none" THEN <<FALSE, Val("raised", <<r.err>>)>>
         ELSE <<TRUE, r.val>>

\* cache.py:72-83: [files, raised]; the file is opened (truncated) before
\* pickle.dump runs, so a value that cannot be pickled leaves it empty
CacheSet(fs, t, key, value) ==
    LET cache_path == GetCachePath(key)
        opened == OpenWb(fs, t, cache_path)
    IN  IF Picklable(value)
        THEN [files |-> WriteData(opened, t, cache_path, Dumps(value)), raised |-> "none"]
        ELSE [files |-> opened, raised |-> "PicklingError"]

\* a sweep that also removes the entries whose age equals the ttl
IsExpired_AtBoundary(t, mtime, T) == t - mtime >= T

\* cache.py:93: the test that decides whether clear_expired unlinks a file
IsExpired(t, mtime, T) == t - mtime > T

\* cache.py:90-94
RECURSIVE CacheClearExpiredLoop(_, _, _, _)
CacheClearExpiredLoop(fs, listing, t, T) ==
    IF listing = {} THEN fs
    ELSE LET cache_file == CHOOSE p \in listing : TRUE
             rest == listing \ {cache_file}
         IN  IF IsExpired(t, fs[cache_file].mtime, T)
             THEN CacheClearExpiredLoop(Unlink(fs, cache_file), rest, t, T)
             ELSE CacheClearExpiredLoop(fs, rest, t, T)

CacheClearExpired(fs, t, T) == CacheClearExpiredLoop(fs, DOMAIN fs, t, T)

\* cache.py:85-88: unlink every file the glob lists
RECURSIVE CacheClearLoop(_, _)
CacheClearLoop(fs, listing) ==
    IF listing = {} THEN fs
    ELSE LET cache_file == CHOOSE p \in listing : TRUE
         IN  CacheClearLoop(Unlink(fs, cache_file), listing \ {cache_file})

\* a clear that removes the expired entries only
CacheClear_OnlyExpired(fs) == CacheClearExpired(fs, now, ttl)

CacheClear(fs) == CacheClearLoop(fs, DOMAIN fs)

---------------------------------------------------------------------------
(* The decorator: cached(ttl, cache_dir)(func) -> wrapper *)

\* the reserved keyword; one token, since it never reaches the key string
ForceRefresh == <<"force_refresh">>

\* kwargs.pop('force_refresh', False): the value popped ...
PopForceRefresh(kwargs) ==
    IF \E i \in 1..Len(kwargs) : kwargs[i][1] = ForceRefresh
    THEN kwargs[CHOOSE i \in 1..Len(kwargs) : kwargs[i][1] = ForceRefresh][2]
    ELSE PyFalse

\* ... and the kwargs left behind
IsNotForceRefresh(item) == item[1] # ForceRefresh

\* the flag read but left among the kwargs
AfterPop_KeepsFlag(kwargs) == kwargs

AfterPop(kwargs) == SelectSeq(kwargs, IsNotForceRefresh)

\* a result stored and returned as it is
Materialize_NoDrain(result) == [raised |-> "none", val |-> result]

\* a drain that keeps what the generator yielded before it raised
Materialize_SwallowsError(result) ==
    IF HasIter(result) /\ ~IsListTupleDict(result)
    THEN [raised |-> "none", val |-> Val("list", Iterate(result, 1))]
    ELSE [raised |-> "none", val |-> result]

\* cache.py:130-132: [raised, val]; list(result) drains a generator, and
\* raises what the generator raises
Materialize(result) ==
    IF HasIter(result) /\ ~IsListTupleDict(result)
    THEN IF result.t = "gen_err"
         THEN [raised |-> "UpstreamError", val |-> None]
         ELSE [raised |-> "none", val |-> Val("list", Iterate(result, 1))]
    ELSE [raised |-> "none", val |-> result]

\* what one run of the decorated function does: it raises, or returns val
Outcomes ==
    {[raises |-> FALSE, val |-> r] : r \in Results} \cup {[raises |-> TRUE, val |-> None]}

\* a wrapper that never looks the key up
ConsultsStore_Never(force_refresh) == FALSE

\* cache.py:119: whether the wrapper looks the key up
ConsultsStore(force_refresh) == ~Truthy(force_refresh)

\* a hit decided by the truth of the value found
IsHit_ByValue(got) == got[1] /\ Truthy(got[2])

\* cache.py:121-122: hit, value = cache.get(cache_key); if hit:
IsHit(got) == got[1]

\* cache.py:112-135: one call of the wrapper, as the record of what it did:
\* files after it, the key, whether the store was consulted and hit, how
\* often func ran, with what and whether it returned or raised, func's
\* result, whether set ran, and the value returned or the exception raised
Wrapper(fs, t, T, call, outcome) ==
    LET force_refresh == PopForceRefresh(call.kwargs)
        kwargs == AfterPop(call.kwargs)
        cache_key == GetCacheKey(<<call.fn>> \o call.args, kwargs)
        consulted == ConsultsStore(force_refresh)
        got == IF consulted THEN CacheGet(fs, t, T, cache_key) ELSE <<FALSE, None>>
        base == [files |-> fs, key |-> cache_key, force |-> Truthy(force_refresh),
                 consulted |-> consulted, hit |-> FALSE, invoked |-> 0,
                 fargs |-> <<>>, fkwargs |-> <<>>, outcome |-> "none", result |-> None,
                 setcalled |-> FALSE, ret |-> None, raised |-> "none"]
        called == [base EXCEPT !.invoked = 1, !.fargs = call.args, !.fkwargs = kwargs]
    IN  IF IsHit(got) THEN [base EXCEPT !.hit = TRUE, !.ret = got[2]]
        ELSE IF outcome.raises
             THEN [called EXCEPT !.outcome = "raised", !.raised = "UpstreamError"]
        ELSE LET m == Materialize(outcome.val)
                 ran == [called EXCEPT !.outcome = "returned", !.result = outcome.val]
             IN  IF m.raised # "none" THEN [ran EXCEPT !.raised = m.raised]
                 ELSE LET s == CacheSet(fs, t, cache_key, m.val)
                      IN  [ran EXCEPT !.files = s.files, !.setcalled = TRUE,
                                      !.raised = s.raised,
                                      !.ret = IF s.raised = "none" THEN m.val ELSE None]

---------------------------------------------------------------------------
(* The calls the model makes *)

fname == PyStr(<<"f">>)
one == PyInt(<<"1">>)
two == PyInt(<<"2">>)
kx == <<"x">>
ky == <<"y">>

MkCall(args, kwargs) == [fn |-> fname, args |-> args, kwargs |-> kwargs]

\* f(x=1, y=2), f(y=2, force_refresh=True, x=1) and f(1, force_refresh=False)
Calls ==
    << MkCall(<<>>, << <<kx, one>>, <<ky, two>> >>),
       MkCall(<<>>, << <<ky, two>>, <<ForceRefresh, PyTrue>>, <<kx, one>> >>),
       MkCall(<<one>>, << <<ForceRefresh, PyFalse>> >>) >>

KeyOfCall(call) == GetCacheKey(<<call.fn>> \o call.args, AfterPop(call.kwargs))

\* the keys the store is used with
Keys == {KeyOfCall(Calls[i]) : i \in 1..Len(Calls)}

\* the values set() is given directly
SetValues == {r \in Results : r.t \notin {"gen", "gen_err"}}

---------------------------------------------------------------------------
(* State machine: the store and the wrapper, one operation at a time *)

NoOp ==
    [op |-> "init", call |-> 0, key |-> <<>>, had |-> "n/a", val |-> None,
     force |-> FALSE, consulted |-> FALSE, hit |-> FALSE, invoked |-> 0,
     fargs |-> <<>>, fkwargs |-> <<>>, outcome |-> "none", result |-> None,
     setcalled |-> FALSE, ret |-> None, raised |-> "none"]

\* history: what the directory held for key when an operation began
Had(key) ==
    IF GetCachePath(key) \notin DOMAIN files THEN "absent"
    ELSE IF now - files[GetCachePath(key)].mtime > ttl THEN "expired"
    ELSE IF Loads(files[GetCachePath(key)].data).err # "none" THEN "corrupt"
    ELSE "valid"

NoWritten == [k \in {} |-> [t0 |-> 0, v |-> None]]

\* the history of a set(key, value) that was called and raised or not
NoteSet(w, key, value, raised) ==
    IF raised = "none"
    THEN [k \in DOMAIN w \cup {key} |-> IF k = key THEN [t0 |-> now, v |-> value] ELSE w[k]]
    ELSE [k \in DOMAIN w \ {key} |-> w[k]]

\* the history entries whose file is still in the directory
StillOnDisk(w, fs) == [k \in {x \in DOMAIN w : GetCachePath(x) \in DOMAIN fs} |-> w[k]]

KeyUnchanged == UNCHANGED <<kin, kout, proc, client>>

\* aws/client.py:10-21: an AwsClient as the dataclass constructs it, with the
\* history of its aws_session accesses: how many there were, how often
\* assume_role was called and with what, how many lines were printed, and
\* what the last access returned or raised
NewClient(region, profile, role_arn, role_session_name, external_id, verbose) ==
    [region |-> region, profile |-> profile, role_arn |-> role_arn,
     role_session_name |-> role_session_name, external_id |-> external_id,
     verbose |-> verbose,
     _session |-> None, _sts_client |-> None, _role_credentials |-> None,
     accesses |-> 0, assumes |-> 0, kwargs |-> <<>>, printed |-> 0,
     ret |-> None, raised |-> "none"]

\* the client of the specifications that use none
NoClient == NewClient(None, None, None, None, None, FALSE)

\* the processes that share one cache directory
Procs == {"p1", "p2"}

NoRes == [status |-> "none", val |-> None, err |-> "none"]

\* a process that has constructed its Cache and has called nothing yet: the
\* operation it runs, where it stands in it (pc), the operation's arguments,
\* its instance's ttl (T), its open file (live: still linked in the
\* directory; snap: what an unlinked file held), what it has read (buf),
\* the paths its glob listed and has yet to visit, the path it decided to
\* unlink (cur), what the key held when the operation began, and its result
Idle ==
    [pc |-> "idle", op |-> "none", key |-> <<>>, val |-> None, fault |-> "none",
     T |-> 0, live |-> FALSE, snap |-> <<>>, buf |-> <<>>, listing |-> {},
     cur |-> <<>>, had |-> [hit |-> FALSE, val |-> None, mtime |-> 0], res |-> NoRes]

NoProcs == [p \in Procs |-> Idle]

Init ==
    /\ files = NoFiles
    /\ now = 0
    /\ ttl \in 0..MaxTTL
    /\ last = NoOp
    /\ written = NoWritten
    /\ everSet = {}
    /\ wiped = {}
    /\ kin = <<>>
    /\ kout = <<>>
    /\ proc = NoProcs
    /\ client = NoClient

\* time passes
Tick ==
    /\ now < MaxTime
    /\ now' = now + 1
    /\ last' = [NoOp EXCEPT !.op = "tick"]
    /\ UNCHANGED <<files, ttl, written, everSet, wiped>>
    /\ KeyUnchanged

\* cache.get(key)
Get(key) ==
    \E got \in {CacheGet(files, now, ttl, key)} :
    /\ last' = [NoOp EXCEPT !.op = "get", !.key = key, !.hit = got[1], !.ret = got[2]]
    /\ UNCHANGED <<files, now, ttl, written, everSet, wiped>>
    /\ KeyUnchanged

\* cache.set(key, value)
Set(key, value) ==
    \E s \in {CacheSet(files, now, key, value)} :
    /\ files' = s.files
    /\ last' = [NoOp EXCEPT !.op = "set", !.key = key, !.had = Had(key), !.val = value,
                            !.setcalled = TRUE, !.raised = s.raised]
    /\ written' = NoteSet(written, key, value, s.raised)
    /\ everSet' = everSet \cup {key}
    /\ wiped' = wiped \ {key}
    /\ UNCHANGED <<now, ttl>>
    /\ KeyUnchanged

\* cache.clear()
Clear ==
    /\ files' = CacheClear(files)
    /\ last' = [NoOp EXCEPT !.op = "clear"]
    /\ written' = StillOnDisk(written, files')
    /\ wiped' = everSet
    /\ UNCHANGED <<now, ttl, everSet>>
    /\ KeyUnchanged

\* cache.clear_expired()
ClearExpired ==
    /\ files' = CacheClearExpired(files, now, ttl)
    /\ last' = [NoOp EXCEPT !.op = "clear_expired"]
    /\ written' = StillOnDisk(written, files')
    /\ UNCHANGED <<now, ttl, everSet, wiped>>
    /\ KeyUnchanged

\* func's outcome is an input of a call only when the call invokes func
NotRun == [raises |-> FALSE, val |-> None]

OutcomesOf(c) ==
    IF Wrapper(files, now, ttl, Calls[c], NotRun).invoked = 1 THEN Outcomes ELSE {NotRun}

\* wrapper(*args, **kwargs), with func doing `outcome` if it is invoked
Call(c, outcome) ==
    \E w \in {Wrapper(files, now, ttl, Calls[c], outcome)} :
    /\ files' = w.files
    /\ last' = [op |-> "call", call |-> c, key |-> w.key, had |-> Had(w.key),
                val |-> None, force |-> w.force, consulted |-> w.consulted,
                hit |-> w.hit, invoked |-> w.invoked, fargs |-> w.fargs,
                fkwargs |-> w.fkwargs, outcome |-> w.outcome, result |-> w.result,
                setcalled |-> w.setcalled, ret |-> w.ret, raised |-> w.raised]
    /\ written' = IF w.setcalled THEN NoteSet(written, w.key, w.ret, w.raised) ELSE written
    /\ everSet' = IF w.setcalled THEN everSet \cup {w.key} ELSE everSet
    /\ wiped' = IF w.setcalled THEN wiped \ {w.key} ELSE wiped
    /\ UNCHANGED <<now, ttl>>
    /\ KeyUnchanged

Next ==
    \/ Tick
    \/ \E key \in Keys : Get(key)
    \/ \E key \in Keys, value \in SetValues : Set(key, value)
    \/ Clear
    \/ ClearExpired
    \/ \E c \in 1..Len(Calls) : \E outcome \in OutcomesOf(c) : Call(c, outcome)

Spec == Init /\ [][Next]_vars

---------------------------------------------------------------------------
(* Key derivation on its own: two calls are drawn, and the wrapper derives *)
(* the key of each (cache.py:114-117)                                      *)

kz == <<"z">>
gname == PyStr(<<"g">>)

KeyFns == {fname, gname}
\* no argument, the number 1, the text "1", the text "x=1", the text "1:x=1"
KeyArgs ==
    { <<>>, <<one>>, <<PyStr(<<"1">>)>>, <<PyStr(<<"x", "=", "1">>)>>,
      <<PyStr(<<"1", ":", "x", "=", "1">>)>> }
KeyItems == {<<kx, one>>, <<kx, two>>, <<ky, one>>, <<kz, one>>}

\* a call names each keyword once
DistinctNames(S) == \A a, b \in S : a[1] = b[1] => a = b

\* every call-site order of the items of S
Orders(S) ==
    {q \in [1..Cardinality(S) -> S] : \A i, j \in 1..Cardinality(S) : q[i] = q[j] => i = j}

KeyKwargs == UNION {Orders(S) : S \in {T \in SUBSET KeyItems : DistinctNames(T)}}

KeyCalls == {[fn |-> f, args |-> a, kwargs |-> k] : f \in KeyFns, a \in KeyArgs, k \in KeyKwargs}

KeyInit ==
    /\ files = NoFiles
    /\ now = 0
    /\ ttl = MaxTTL
    /\ last = NoOp
    /\ written = NoWritten
    /\ everSet = {}
    /\ wiped = {}
    /\ kin \in KeyCalls \X KeyCalls
    /\ kout = <<>>
    /\ proc = NoProcs
    /\ client = NoClient

EncodeKeys ==
    /\ kout = <<>>
    /\ kout' = <<KeyOfCall(kin[1]), KeyOfCall(kin[2])>>
    /\ UNCHANGED <<files, now, ttl, last, written, everSet, wiped, kin, proc, client>>

KeyNext == EncodeKeys

KeySpec == KeyInit /\ [][KeyNext]_vars

---------------------------------------------------------------------------
(* The wrapper around a function whose results are falsy *)

\* None, False, 0, an empty list and a generator that yields nothing
FalsyResults ==
    {None, PyFalse, PyInt(<<"0">>), Val("list", <<>>), Val("gen", <<>>)}

FalsyOutcomes == {[raises |-> FALSE, val |-> r] : r \in FalsyResults}

FalsyOutcomesOf(c) ==
    IF Wrapper(files, now, ttl, Calls[c], NotRun).invoked = 1 THEN FalsyOutcomes ELSE {NotRun}

FalsyNext ==
    \/ Tick
    \/ \E c \in 1..Len(Calls) : \E outcome \in FalsyOutcomesOf(c) : Call(c, outcome)
    \/ ClearExpired

FalsySpec == Init /\ [][FalsyNext]_vars

---------------------------------------------------------------------------
(* AwsClient.aws_session (aws/client.py:23-56) *)

\* a session that carries no explicit credentials
NoCreds == <<>>

\* boto3.session.Session(aws_access_key_id=..., aws_secret_access_key=...,
\* aws_session_token=..., region_name=..., profile_name=...)
Session(creds, region, profile) ==
    Val("session", [creds |-> creds, region |-> region, profile |-> profile])

\* session.client('sts')
StsClient(session) == Val("sts", session.v)

\* the Credentials of the n-th answer of sts.assume_role
Credentials(n) ==
    [AccessKeyId |-> <<"AKIA", n>>, SecretAccessKey |-> <<"secret", n>>,
     SessionToken |-> <<"token", n>>]

\* client.py:35-41
AssumeRoleKwargs(c) ==
    << <<"RoleArn", c.role_arn>>,
       <<"RoleSessionName",
         IF Truthy(c.role_session_name) THEN c.role_session_name
         ELSE PyStr(<<"aws-log-parser-session">>)>> >>
    \o (IF Truthy(c.external_id) THEN << <<"ExternalId", c.external_id>> >> ELSE <<>>)

\* what sts.assume_role does when it is called
StsOutcomes == {"ok", "raises"}

\* client.py:23-56: the client after one read of aws_session, with
\* assume_role doing `sts` if it is called
AwsSession(c, sts) ==
    IF c._session # None THEN [c EXCEPT !.ret = c._session, !.raised = "none"]
    ELSE LET base == Session(NoCreds, c.region, c.profile) IN
         IF ~Truthy(c.role_arn)
         THEN [c EXCEPT !._session = base, !.ret = base, !.raised = "none"]
         ELSE LET called == [c EXCEPT !._session = base,
                                      !._sts_client = StsClient(base),
                                      !.printed = @ + (IF c.verbose THEN 1 ELSE 0),
                                      !.assumes = @ + 1,
                                      !.kwargs = AssumeRoleKwargs(c)]
              IN  IF sts = "raises"
                  THEN [called EXCEPT !.ret = None, !.raised = "ClientError"]
                  ELSE LET creds == Credentials(called.assumes)
                           assumed == Session(<<creds.AccessKeyId, creds.SecretAccessKey,
                                                creds.SessionToken>>, c.region, None)
                       IN  [called EXCEPT !._role_credentials = creds,
                                          !._session = assumed,
                                          !.printed = @ + (IF c.verbose THEN 1 ELSE 0),
                                          !.ret = assumed, !.raised = "none"]

arn == PyStr(<<"a", "r", "n">>)

\* the clients the model constructs: each optional field None or set, and
\* role_arn also the empty text
Clients ==
    {NewClient(region, None, role_arn, name, ext, verbose) :
        region \in {None, PyStr(<<"u", "s">>)},
        role_arn \in {None, PyStr(<<>>), arn},
        name \in {None, PyStr(<<"n">>)},
        ext \in {None, PyStr(<<"e">>)},
        verbose \in BOOLEAN}

ClientInit ==
    /\ files = NoFiles
    /\ now = 0
    /\ ttl = 0
    /\ last = NoOp
    /\ written = NoWritten
    /\ everSet = {}
    /\ wiped = {}
    /\ kin = <<>>
    /\ kout = <<>>
    /\ proc = NoProcs
    /\ client \in Clients

\* client.aws_session is read
Access(sts) ==
    /\ client.accesses < MaxAccess
    /\ client' = [AwsSession(client, sts) EXCEPT !.accesses = @ + 1]
    /\ UNCHANGED <<files, now, ttl, last, written, everSet, wiped, kin, kout, proc>>

ClientNext == \E sts \in StsOutcomes : Access(sts)

ClientSpec == ClientInit /\ [][ClientNext]_vars

---------------------------------------------------------------------------
(* Several processes on one cache directory: each constructs its own Cache *)
(* (its own ttl) and runs one operation, one file system call at a time;   *)
(* the processes are interchangeable, and p1 is the one with the smaller   *)
(* ttl when the two differ                                                  *)

\* the entry an earlier run left in the directory at time 0
V0 == Val("list", abc)

\* what set() is given: a number, and an object that cannot be pickled
DirValues == {PyInt(<<"4", "2">>), Val("obj", <<>>)}

\* the wrapper is called as f(x=1, y=2), without and with force_refresh=True,
\* and the decorated function returns a number
DirCalls == {1, 2}
CallValues == {PyInt(<<"4", "2">>)}

\* how the medium treats a set: it accepts it, rejects the open
\* (permissions, path errors) or rejects the write (no space left)
Faults == {"none", "open", "write"}

\* an open that is rejected goes unnoticed
OpenRejected_Ignored(fault) == FALSE

\* cache.py:82: open(cache_path, 'wb') raises OSError
OpenRejected(fault) == fault = "open"

\* cache.py:83: pickle.dump's write raises OSError
WriteRejected(fault) == fault = "write"

\* every instance applying the ttl of the first one
SelfTtl_First(pr, p) == pr["p1"].T

\* cache.py:29: self.ttl, the ttl of the instance whose method runs
SelfTtl(pr, p) == pr[p].T

\* a get that unlinks the expired file it finds
ExpiredOnGet_Unlinks(fs, path) == Unlink(fs, path)

\* cache.py:61-63: get finds the file expired and returns: the directory after it
ExpiredOnGet(fs, path) == fs

\* the directories the processes may find: each key absent, or holding V0
InitialDirs ==
    {[path \in {GetCachePath(k) : k \in S} |-> [mtime |-> 0, data |-> Dumps(V0)]] :
        S \in SUBSET Keys}

Min(a, b) == IF a < b THEN a ELSE b

\* f.write(chunk) at position off of the open file: what lies before off is
\* kept (a hole reads as NUL), what lies after the chunk is kept
WriteAt(fs, t, path, off, chunk) ==
    LET old == fs[path].data
        head == [i \in 1..off |-> IF i <= Len(old) THEN old[i] ELSE "NUL"]
        tail == SubSeq(old, off + Len(chunk) + 1, Len(old))
    IN  [fs EXCEPT ![path] = [mtime |-> t, data |-> head \o chunk \o tail]]

\* the operation of pr is over
Done(pr, status, val, err) ==
    [pr EXCEPT !.pc = "done", !.live = FALSE, !.snap = <<>>, !.buf = <<>>,
               !.listing = {}, !.cur = <<>>,
               !.res = [status |-> status, val |-> val, err |-> err]]

Raise(pr, err) == Done(pr, "raised", None, err)

\* cache.py:56-70 and 119-123: get returns (hit, val), to its caller or to
\* the wrapper, which returns a hit and goes on to call func on a miss
GetResult(pr, hit, val) ==
    IF pr.op = "call"
    THEN IF hit THEN Done(pr, "returned", val, "none")
         ELSE [pr EXCEPT !.pc = "w_func", !.live = FALSE, !.snap = <<>>, !.buf = <<>>]
    ELSE Done(pr, IF hit THEN "hit" ELSE "miss", val, "none")

\* path is unlinked: a process that has it open keeps the file it opened
Detached(pr, path, data) ==
    IF pr.live /\ GetCachePath(pr.key) = path
    THEN [pr EXCEPT !.live = FALSE, !.snap = data]
    ELSE pr

\* what the key of an operation holds when the operation begins
HadAt(fs, t, T, key) ==
    LET got == CacheGet(fs, t, T, key) IN
    [hit |-> got[1], val |-> got[2],
     mtime |-> IF GetCachePath(key) \in DOMAIN fs THEN fs[GetCachePath(key)].mtime ELSE 0]

DirUnchanged == UNCHANGED <<ttl, last, written, everSet, wiped, kin, kout, client>>

DirInit ==
    /\ files \in InitialDirs
    /\ now = 0
    /\ ttl = 0
    /\ last = NoOp
    /\ written = NoWritten
    /\ everSet = {}
    /\ wiped = {}
    /\ kin = <<>>
    /\ kout = <<>>
    /\ proc \in {pr \in [Procs -> {[Idle EXCEPT !.T = t] : t \in 0..MaxTTL}] :
                    pr["p1"].T <= pr["p2"].T}
    /\ client = NoClient

DirTick ==
    /\ now < MaxTime
    /\ now' = now + 1
    /\ UNCHANGED <<files, proc>>
    /\ DirUnchanged

\* p calls cache.get(key)
StartGet(p, key) ==
    /\ proc[p].pc = "idle"
    /\ proc' = [proc EXCEPT ![p] = [@ EXCEPT !.pc = "g_exists", !.op = "get", !.key = key]]
    /\ UNCHANGED <<files, now>>
    /\ DirUnchanged

\* p calls cache.set(key, value)
StartSet(p, key, value) ==
    /\ proc[p].pc = "idle"
    /\ proc' = [proc EXCEPT ![p] =
                  [@ EXCEPT !.pc = "s_open", !.op = "set", !.key = key, !.val = value,
                            !.had = HadAt(files, now, SelfTtl(proc, p), key)]]
    /\ UNCHANGED <<files, now>>
    /\ DirUnchanged

\* p calls the wrapper as Calls[c], with a func that returns value
\* (cache.py:114-119)
StartCall(p, c, value) ==
    /\ proc[p].pc = "idle"
    /\ proc' = [proc EXCEPT ![p] =
                  [@ EXCEPT !.pc = IF ConsultsStore(PopForceRefresh(Calls[c].kwargs))
                                   THEN "g_exists" ELSE "w_func",
                            !.op = "call", !.key = KeyOfCall(Calls[c]), !.val = value]]
    /\ UNCHANGED <<files, now>>
    /\ DirUnchanged

\* p calls cache.clear()
StartClear(p) ==
    /\ proc[p].pc = "idle"
    /\ proc' = [proc EXCEPT ![p] = [@ EXCEPT !.pc = "c_list", !.op = "clear"]]
    /\ UNCHANGED <<files, now>>
    /\ DirUnchanged

\* p calls cache.clear_expired()
StartSweep(p) ==
    /\ proc[p].pc = "idle"
    /\ proc' = [proc EXCEPT ![p] = [@ EXCEPT !.pc = "x_list", !.op = "clear_expired"]]
    /\ UNCHANGED <<files, now>>
    /\ DirUnchanged

\* cache.py:58: if not cache_path.exists(): return False, None
GetExists(p) ==
    /\ proc[p].pc = "g_exists"
    /\ proc' = [proc EXCEPT ![p] =
                  IF GetCachePath(@.key) \notin DOMAIN files
                  THEN GetResult(@, FALSE, None)
                  ELSE [@ EXCEPT !.pc = "g_stat"]]
    /\ UNCHANGED <<files, now>>
    /\ DirUnchanged

\* cache.py:61-63: cache_path.stat() and the age test
GetStat(p) ==
    /\ proc[p].pc = "g_stat"
    /\ LET path == GetCachePath(proc[p].key) IN
       IF path \notin DOMAIN files
       THEN /\ proc' = [proc EXCEPT ![p] = Raise(@, "FileNotFoundError")]
            /\ files' = files
       ELSE IF IsStale(now, files[path].mtime, SelfTtl(proc, p))
       THEN /\ proc' = [proc EXCEPT ![p] = GetResult(@, FALSE, None)]
            /\ files' = ExpiredOnGet(files, path)
       ELSE /\ proc' = [proc EXCEPT ![p] = [@ EXCEPT !.pc = "g_open"]]
            /\ files' = files
    /\ UNCHANGED now
    /\ DirUnchanged

\* cache.py:66: open(cache_path, 'rb')
GetOpen(p) ==
    /\ proc[p].pc = "g_open"
    /\ proc' = [proc EXCEPT ![p] =
                  IF GetCachePath(@.key) \notin DOMAIN files
                  THEN Raise(@, "FileNotFoundError")
                  ELSE [@ EXCEPT !.pc = "g_read", !.live = TRUE]]
    /\ UNCHANGED <<files, now>>
    /\ DirUnchanged

\* what the file p has open holds now
Source(p) == IF proc[p].live THEN files[GetCachePath(proc[p].key)].data ELSE proc[p].snap

\* cache.py:67: pickle.load(f) reads the head of the file
GetRead(p) ==
    /\ proc[p].pc = "g_read"
    /\ proc' = [proc EXCEPT ![p] =
                  [@ EXCEPT !.pc = "g_load",
                            !.buf = SubSeq(Source(p), 1, Min(ChunkLen, Len(Source(p))))]]
    /\ UNCHANGED <<files, now>>
    /\ DirUnchanged

\* cache.py:67-70: pickle.load(f) reads the rest from where it stood and
\* decodes; get catches pickle.PickleError and EOFError only
GetLoad(p) ==
    /\ proc[p].pc = "g_load"
    /\ \E r \in {Loads(proc[p].buf \o
                       SubSeq(Source(p), Len(proc[p].buf) + 1, Len(Source(p))))} :
          proc' = [proc EXCEPT ![p] =
                     IF r.err = "none" THEN GetResult(@, TRUE, r.val)
                     ELSE IF GetCatches(r.err) THEN GetResult(@, FALSE, None)
                     ELSE Raise(@, r.err)]
    /\ UNCHANGED <<files, now>>
    /\ DirUnchanged

\* cache.py:127-131: func runs and its result is materialized
CallFunc(p) ==
    /\ proc[p].pc = "w_func"
    /\ \E m \in {Materialize(proc[p].val)} :
          proc' = [proc EXCEPT ![p] =
                     IF m.raised # "none" THEN Raise(@, m.raised)
                     ELSE [@ EXCEPT !.pc = "s_open", !.val = m.val,
                                    !.had = HadAt(files, now, SelfTtl(proc, p),
                                                   proc[p].key)]]
    /\ UNCHANGED <<files, now>>
    /\ DirUnchanged

\* cache.py:82: open(cache_path, 'wb'), on a medium that does `fault`
SetOpen(p, fault) ==
    /\ proc[p].pc = "s_open"
    /\ IF OpenRejected(fault)
       THEN /\ proc' = [proc EXCEPT ![p] = Raise([@ EXCEPT !.fault = fault], "OSError")]
            /\ files' = files
       ELSE /\ proc' = [proc EXCEPT ![p] =
                          [@ EXCEPT !.pc = "s_dump", !.fault = fault, !.live = TRUE]]
            /\ files' = OpenWb(files, now, GetCachePath(proc[p].key))
    /\ UNCHANGED now
    /\ DirUnchanged

\* the position after the first chunk of the pickle buf
FirstLen(buf) == Min(ChunkLen, Len(buf))

\* cache.py:83: pickle.dump(value, f) pickles the value and writes the head
SetDump(p) ==
    /\ proc[p].pc = "s_dump"
    /\ IF ~Picklable(proc[p].val)
       THEN /\ proc' = [proc EXCEPT ![p] = Raise(@, "PicklingError")]
            /\ files' = files
       ELSE \E data \in {Dumps(proc[p].val)} :
            /\ proc' = [proc EXCEPT ![p] = [@ EXCEPT !.pc = "s_write", !.buf = data]]
            /\ files' = IF proc[p].live
                        THEN WriteAt(files, now, GetCachePath(proc[p].key), 0,
                                     SubSeq(data, 1, FirstLen(data)))
                        ELSE files
    /\ UNCHANGED now
    /\ DirUnchanged

\* cache.py:83: pickle.dump(value, f) writes the rest, and set returns (to
\* the wrapper, which returns the result: cache.py:134-135)
SetWrite(p) ==
    /\ proc[p].pc = "s_write"
    /\ IF WriteRejected(proc[p].fault)
       THEN /\ proc' = [proc EXCEPT ![p] = Raise(@, "OSError")]
            /\ files' = files
       ELSE /\ proc' = [proc EXCEPT ![p] =
                          IF @.op = "call" THEN Done(@, "returned", @.val, "none")
                          ELSE Done(@, "ok", None, "none")]
            /\ files' = IF proc[p].live
                        THEN WriteAt(files, now, GetCachePath(proc[p].key),
                                     FirstLen(proc[p].buf),
                                     SubSeq(proc[p].buf, FirstLen(proc[p].buf) + 1,
                                            Len(proc[p].buf)))
                        ELSE files
    /\ UNCHANGED now
    /\ DirUnchanged

\* cache.py:87 and 92: self.cache_dir.glob('*.pickle') lists the directory
ListDir(p, from, to) ==
    /\ proc[p].pc = from
    /\ proc' = [proc EXCEPT ![p] =
                  IF DOMAIN files = {} THEN Done(@, "ok", None, "none")
                  ELSE [@ EXCEPT !.pc = to, !.listing = DOMAIN files]]
    /\ UNCHANGED <<files, now>>
    /\ DirUnchanged

ClearList(p) == ListDir(p, "c_list", "c_unlink")

SweepList(p) == ListDir(p, "x_list", "x_stat")

\* p unlinks path and goes on with the paths left to visit, at pc next
UnlinkStep(p, path, rest, next) ==
    IF path \notin DOMAIN files
    THEN /\ proc' = [proc EXCEPT ![p] = Raise(@, "FileNotFoundError")]
         /\ files' = files
    ELSE /\ proc' = [q \in Procs |->
                       IF q # p THEN Detached(proc[q], path, files[path].data)
                       ELSE IF rest = {} THEN Done(proc[p], "ok", None, "none")
                       ELSE [proc[p] EXCEPT !.pc = next, !.listing = rest, !.cur = <<>>]]
         /\ files' = Unlink(files, path)

\* cache.py:87-88: cache_file.unlink() for the next listed file
ClearUnlink(p, path) ==
    /\ proc[p].pc = "c_unlink"
    /\ path \in proc[p].listing
    /\ UnlinkStep(p, path, proc[p].listing \ {path}, "c_unlink")
    /\ UNCHANGED now
    /\ DirUnchanged

\* cache.py:93: cache_file.stat() and the age test for the next listed file
SweepStat(p, path) ==
    /\ proc[p].pc = "x_stat"
    /\ path \in proc[p].listing
    /\ proc' = [proc EXCEPT ![p] =
                  IF path \notin DOMAIN files THEN Raise(@, "FileNotFoundError")
                  ELSE IF IsExpired(now, files[path].mtime, SelfTtl(proc, p))
                  THEN [@ EXCEPT !.pc = "x_unlink", !.cur = path,
                                 !.listing = @ \ {path}]
                  ELSE IF @.listing = {path} THEN Done(@, "ok", None, "none")
                  ELSE [@ EXCEPT !.listing = @ \ {path}]]
    /\ UNCHANGED <<files, now>>
    /\ DirUnchanged

\* cache.py:94: cache_file.unlink() for the file found expired
SweepUnlink(p) ==
    /\ proc[p].pc = "x_unlink"
    /\ UnlinkStep(p, proc[p].cur, proc[p].listing, "x_stat")
    /\ UNCHANGED now
    /\ DirUnchanged

DirPaths == {GetCachePath(k) : k \in Keys}

DirNext ==
    \/ DirTick
    \/ \E p \in Procs, key \in Keys : StartGet(p, key)
    \/ \E p \in Procs, key \in Keys, value \in DirValues : StartSet(p, key, value)
    \/ \E p \in Procs, c \in DirCalls, value \in CallValues : StartCall(p, c, value)
    \/ \E p \in Procs : StartClear(p)
    \/ \E p \in Procs : StartSweep(p)
    \/ \E p \in Procs : GetExists(p)
    \/ \E p \in Procs : GetStat(p)
    \/ \E p \in Procs : GetOpen(p)
    \/ \E p \in Procs : GetRead(p)
    \/ \E p \in Procs : GetLoad(p)
    \/ \E p \in Procs : CallFunc(p)
    \/ \E p \in Procs, fault \in Faults : SetOpen(p, fault)
    \/ \E p \in Procs : SetDump(p)
    \/ \E p \in Procs : SetWrite(p)
    \/ \E p \in Procs : ClearList(p)
    \/ \E p \in Procs, path \in DirPaths : ClearUnlink(p, path)
    \/ \E p \in Procs : SweepList(p)
    \/ \E p \in Procs, path \in DirPaths : SweepStat(p, path)
    \/ \E p \in Procs : SweepUnlink(p)

DirSpec == DirInit /\ [][DirNext]_vars

---------------------------------------------------------------------------
(* Claims *)

\* the entry history records for key, if it is within its ttl at time t
ValidAt(key, t) == key \in DOMAIN written /\ t - written[key].t0 <= ttl

\* C1 (one step): a memoized call without force_refresh returns the stored value and
\* does not invoke the callable when the store holds a valid entry for the
\* call's key; otherwise it invokes the callable exactly once and, when the
\* call returns, the result (materialized, with the callable's items) is
\* what it returns and what the store then holds under that key.
C1_Step ==
    (last'.op = "call" /\ ~last'.force) =>
        LET k == last'.key IN
        IF ValidAt(k, now)
        THEN /\ last'.raised = "none"
             /\ last'.invoked = 0
             /\ last'.ret = written[k].v
             /\ files' = files
        ELSE /\ last'.invoked = 1
             /\ last'.raised = "none" =>
                    /\ last'.outcome = "returned"
                    /\ last'.ret.v = last'.result.v
                    /\ CacheGet(files', now', ttl', k) = <<TRUE, last'.ret>>
                    /\ files'[GetCachePath(k)].mtime = now

\* C1: every step of the store and the wrapper is such a step: a hit that
\* does not invoke the callable, or a miss that invokes it once and stores
\* and returns its result.
C1_HitOrInvokeOnce == [][C1_Step]_vars

\* C1's case: a hit at the last moment of the entry's life (t0 + ttl), one
\* tick before the same call would invoke the callable again
C1_Witness ==
    /\ last.op = "call" /\ ~last.force /\ last.hit /\ last.invoked = 0
    /\ ttl > 0
    /\ now = written[last.key].t0 + ttl

\* C2: set(k, v) of a serializable v, whatever the store held for k, is
\* followed by get(k) = (true, v): the entry is overwritten and its
\* write-time is now.
C2_SetThenGet ==
    (last.op = "set" /\ Picklable(last.val)) =>
        /\ last.raised = "none"
        /\ CacheGet(files, now, ttl, last.key) = <<TRUE, last.val>>
        /\ files[GetCachePath(last.key)].mtime = now

\* C2's case: a set over an expired entry
C2_Witness ==
    /\ last.op = "set" /\ Picklable(last.val) /\ last.had = "expired"
    /\ last.val = Val("tuple", abc)

\* C3: an entry written at t0 and neither rewritten nor removed since is a
\* hit with its value at every time up to and including t0 + ttl and a miss
\* at every later time, as get computes it and as the get operation returned.
C3_TtlExpiry ==
    /\ \A k \in DOMAIN written :
          CacheGet(files, now, ttl, k)
              = IF now <= written[k].t0 + ttl THEN <<TRUE, written[k].v>> ELSE <<FALSE, None>>
    /\ (last.op = "get" /\ last.key \in DOMAIN written) =>
          /\ last.hit = (now <= written[last.key].t0 + ttl)
          /\ last.hit => last.ret = written[last.key].v

\* C3's case: a get that misses an entry, still on disk, one tick after the
\* end of its life
C3_Witness ==
    /\ last.op = "get" /\ last.key \in DOMAIN written /\ ~last.hit
    /\ now = written[last.key].t0 + ttl + 1

\* whether call number c is made with force_refresh=True
ForcedCall(c) ==
    c \in 1..Len(Calls)
    /\ \E i \in 1..Len(Calls[c].kwargs) : Calls[c].kwargs[i] = <<ForceRefresh, PyTrue>>

\* call number c with the same arguments and no force_refresh
PlainCall(c) == [Calls[c] EXCEPT !.kwargs = SelectSeq(@, IsNotForceRefresh)]

\* C4: a call with force_refresh=True does not consult the store and
\* invokes the callable, also when a valid entry exists; when it returns,
\* the entry it wrote is the one a call with the same arguments and no
\* force_refresh reads: that call, made right after, returns the fresh
\* result and does not invoke the callable.
C4_ForceRefresh ==
    (last.op = "call" /\ ForcedCall(last.call)) =>
        /\ ~last.consulted
        /\ last.invoked = 1
        /\ last.raised = "none" =>
              /\ last.ret.v = last.result.v
              /\ \A o \in Outcomes :
                    \E w \in {Wrapper(files, now, ttl, PlainCall(last.call), o)} :
                        w.hit /\ w.invoked = 0 /\ w.raised = "none" /\ w.ret = last.ret

\* C4's case: a forced call made while the key held a valid entry
C4_Witness ==
    /\ last.op = "call" /\ ForcedCall(last.call) /\ last.had = "valid"
    /\ last.invoked = 1 /\ last.raised = "none"

\* C5: when the callable returns a one-shot generator of a, b, c, the call
\* returns a sequence that yields a, b, c on a first and on a second
\* iteration, the store holds that sequence, and the hit that follows
\* returns a sequence that does the same.
C5_LazyResultDrained ==
    (last.op = "call" /\ last.outcome = "returned" /\ last.result = Val("gen", abc)) =>
        /\ last.raised = "none"
        /\ Iterate(last.ret, 1) = abc /\ Iterate(last.ret, 2) = abc
        /\ GetCachePath(last.key) \in DOMAIN files
        /\ Loads(files[GetCachePath(last.key)].data) = [err |-> "none", val |-> last.ret]
        /\ \E w \in {Wrapper(files, now, ttl, PlainCall(last.call), NotRun)} :
              w.hit /\ Iterate(w.ret, 1) = abc /\ Iterate(w.ret, 2) = abc

\* C5's case: a miss on which the callable returned the generator
C5_Witness ==
    /\ last.op = "call" /\ ~ForcedCall(last.call) /\ last.invoked = 1
    /\ last.result = Val("gen", abc) /\ last.raised = "none"

\* C6: when the callable returns a value that is not lazy (None, a scalar, a
\* string, a list, a tuple, a mapping, a set), the call returns a value of
\* the same type and content, and so does the hit that follows.
C6_ShapePreserved ==
    (/\ last.op = "call" /\ last.outcome = "returned"
     /\ last.result.t \in {"none", "int", "str", "list", "tuple", "dict", "set"}) =>
        /\ last.raised = "none"
        /\ last.ret = last.result
        /\ \E w \in {Wrapper(files, now, ttl, PlainCall(last.call), NotRun)} :
              w.hit /\ w.ret = last.result

\* C7 (one step): when the callable raises, on being invoked or while its generator is
\* drained, the call raises that error and set is not called: the directory
\* is as it was before the call.
C7_Step ==
    (/\ last'.op = "call"
     /\ \/ last'.outcome = "raised"
        \/ last'.outcome = "returned" /\ last'.result.t = "gen_err") =>
        /\ last'.raised = "UpstreamError"
        /\ ~last'.setcalled
        /\ files' = files
        /\ written' = written

\* C7: on every step where the callable raises, the call raises and the
\* directory is left as it was.
C7_UpstreamFailure == [][C7_Step]_vars

\* C7's case: a forced call whose generator raised while it was drained,
\* with the valid entry the key held before still a hit
C7_Witness ==
    /\ last.op = "call" /\ ForcedCall(last.call) /\ last.raised = "UpstreamError"
    /\ last.result.t = "gen_err" /\ last.had = "valid"
    /\ CacheGet(files, now, ttl, last.key)[1]

\* C8 (one step): clear_expired removes exactly the files whose age is greater than the
\* ttl; every other file stays, with its content and modification time.
C8_Step ==
    last'.op = "clear_expired" =>
        files' = [p \in {q \in DOMAIN files : now - files[q].mtime <= ttl} |-> files[p]]

\* C8: every clear_expired step removes exactly the files older than the ttl.
C8_ClearExpired == [][C8_Step]_vars

\* C8's case: a sweep that removed one key's file (set since the last clear,
\* so only a sweep can have removed it) and kept another's
C8_Witness ==
    /\ last.op = "clear_expired"
    /\ DOMAIN files # {}
    /\ \E k \in everSet \ wiped : GetCachePath(k) \notin DOMAIN files

\* C9: a key that was set before a clear() and has not been set since is a
\* miss, as get computes it and as the get operation returned.
C9_ClearEmpties ==
    /\ \A k \in wiped : ~CacheGet(files, now, ttl, k)[1]
    /\ (last.op = "get" /\ last.key \in wiped) => ~last.hit
    /\ last.op = "clear" => files = NoFiles

\* C9's case: a clear at time 0, when every key set before it was still
\* within its ttl
C9_Witness == last.op = "clear" /\ wiped # {} /\ now = 0

\* the (name, value) pairs of a call's keywords, whatever their order
ItemSet(kwargs) == {kwargs[i] : i \in 1..Len(kwargs)}

SameCall(a, b) == a.fn = b.fn /\ a.args = b.args /\ ItemSet(a.kwargs) = ItemSet(b.kwargs)

\* C10: two calls of the same function with the same positional arguments
\* in the same order and the same keyword name/value pairs, in whatever
\* order the call sites name the keywords, get equal keys.
C10_KeywordOrder ==
    (kout # <<>> /\ SameCall(kin[1], kin[2])) => kout[1] = kout[2]

\* C10's case: three keywords in two different orders
C10_Witness ==
    /\ kout # <<>> /\ SameCall(kin[1], kin[2])
    /\ Len(kin[1].kwargs) = Cardinality({it[1] : it \in KeyItems})
    /\ kin[1].kwargs # kin[2].kwargs

\* C11: two calls that differ in the function, in a positional value or in
\* a keyword name/value pair get different keys (the digest being
\* collision-free, different key strings): a positional value and a keyword
\* pair, a value containing ":" and a number and its text are told apart.
C11_DistinctKeys ==
    (kout # <<>> /\ ~SameCall(kin[1], kin[2])) => kout[1] # kout[2]

\* C15: whenever the wrapper invokes the callable, it passes the caller's
\* positional arguments and the caller's keywords without force_refresh,
\* whether force_refresh was omitted, False or True.
C15_FlagNotForwarded ==
    (last.op = "call" /\ last.invoked = 1) =>
        /\ last.fargs = Calls[last.call].args
        /\ last.fkwargs = SelectSeq(Calls[last.call].kwargs, IsNotForceRefresh)
        /\ \A i \in 1..Len(last.fkwargs) : last.fkwargs[i][1] # ForceRefresh

\* C15's case: the callable invoked by a call that names force_refresh=False
\* among other keywords or arguments
C15_Witness ==
    /\ last.op = "call" /\ last.invoked = 1
    /\ \E i \in 1..Len(Calls[last.call].kwargs) :
          Calls[last.call].kwargs[i] = <<ForceRefresh, PyFalse>>
    /\ last.fargs # <<>>

---------------------------------------------------------------------------
(* Claims about processes that share the directory (DirSpec) *)

\* p takes the step: its own steps move its pc or shorten its listing
Acted(p) == proc'[p].pc # proc[p].pc \/ proc'[p].listing # proc[p].listing

\* the file the directory fs holds for key, if any
EntryOf(fs, key) == IF GetCachePath(key) \in DOMAIN fs THEN <<fs[GetCachePath(key)]>> ELSE <<>>

\* C12: a get(k) that runs while another process runs set(k, v) ends as a
\* miss or as a hit with a value that was written in full (the entry the
\* directory held, or v); it never ends by raising.
C12_GetDuringSet ==
    \A p, q \in Procs :
        (/\ proc[p].op = "get" /\ proc[p].pc = "done"
         /\ proc[q].op = "set" /\ proc[q].key = proc[p].key) =>
            /\ proc[p].res.status \in {"hit", "miss"}
            /\ proc[p].res.status = "hit" => proc[p].res.val \in {V0, proc[q].val}

\* C13: no step of a set(k1, v), whatever the other process does between
\* its steps (another set on k1 included), changes the content or the
\* write-time of the entry of a key k2 # k1, or creates or removes it.
C13_OtherKeysUntouched ==
    [][\A p \in Procs :
          (Acted(p) /\ proc'[p].op = "set") =>
              \A k2 \in Keys \ {proc'[p].key} : EntryOf(files', k2) = EntryOf(files, k2)]_vars

C13_Witness ==
    \E k1, k2 \in Keys :
        /\ k1 # k2
        /\ \A p \in Procs :
              /\ proc[p].op = "set" /\ proc[p].key = k1
              /\ proc[p].pc = "done" /\ proc[p].res.status = "ok"
        /\ files[GetCachePath(k1)].mtime > 0
        /\ EntryOf(files, k2) = <<[mtime |-> 0, data |-> Dumps(V0)]>>

\* the medium rejects the set of pr: its open, or the write of its pickle
Rejected(pr) == pr.fault = "open" \/ (pr.fault = "write" /\ Picklable(pr.val))

\* C14: a set(k, v) that the medium rejects, called directly or by the
\* wrapper, ends by raising the medium's error and returns no value, and
\* none of its steps changes what get returns for a key k2 # k, under any ttl.
C14_RejectedWrite ==
    [][\A p \in Procs :
          (Acted(p) /\ proc'[p].op \in {"set", "call"} /\ Rejected(proc'[p])) =>
              /\ proc'[p].pc = "done" =>
                    proc'[p].res = [status |-> "raised", val |-> None, err |-> "OSError"]
              /\ \A k2 \in Keys \ {proc'[p].key} : \A T \in 0..MaxTTL :
                    CacheGet(files', now', T, k2) = CacheGet(files, now, T, k2)]_vars

C14_Witness ==
    \E p \in Procs : \E k2 \in Keys :
        /\ proc[p].op = "call" /\ proc[p].pc = "done"
        /\ proc[p].fault = "write" /\ proc[p].res.err = "OSError"
        /\ k2 # proc[p].key
        /\ CacheGet(files, now, proc[p].T, k2) = <<TRUE, V0>>

\* q's step is the age test of a get or of a sweep on the entry that p's
\* completed set(k, v) created
JudgesEntryOf(q, p) ==
    /\ p # q /\ Acted(q)
    /\ proc[p].op = "set" /\ proc[p].pc = "done" /\ proc[p].res.status = "ok"
    /\ GetCachePath(proc[p].key) \in DOMAIN files
    /\ \/ proc[q].pc = "g_stat" /\ proc[q].key = proc[p].key
       \/ /\ proc[q].pc = "x_stat"
          /\ proc[q].listing \ proc'[q].listing = {GetCachePath(proc[p].key)}

\* that age test finds the entry expired: the get (of the caller or of the
\* wrapper) does not go on to open the file, the sweep goes on to unlink it
FoundExpired(q) ==
    \/ proc[q].pc = "g_stat" /\ proc'[q].pc # "g_open"
    \/ proc[q].pc = "x_stat" /\ proc'[q].pc = "x_unlink"

\* C16 as stated: the entry that instance A created is found expired, by a
\* get or a clear_expired of another instance, exactly when its age exceeds
\* A's ttl.
C16_CreatorTtl ==
    [][\A p, q \in Procs :
          JudgesEntryOf(q, p) =>
              (FoundExpired(q) <=>
                  now - files[GetCachePath(proc[p].key)].mtime > proc[p].T)]_vars

\* C16 as amended: the entry that instance A created is found expired, by a
\* get or a clear_expired of another instance B, exactly when its age
\* exceeds B's ttl, the ttl of the instance that runs the get or the sweep.
C16_ReaderTtl ==
    [][\A p, q \in Procs :
          JudgesEntryOf(q, p) =>
              (FoundExpired(q) <=>
                  now - files[GetCachePath(proc[p].key)].mtime > proc[q].T)]_vars

\* a sweep of the instance with the smaller ttl has removed the entry that
\* the other instance created, at a time when no entry is older than the
\* creator's ttl
C16_Witness ==
    \E p, q \in Procs :
        /\ proc[p].op = "set" /\ proc[p].pc = "done" /\ proc[p].res.status = "ok"
        /\ proc[q].op = "clear_expired" /\ proc[q].pc = "done"
        /\ proc[q].res.status = "ok"
        /\ proc[q].T < proc[p].T
        /\ now <= proc[p].T
        /\ GetCachePath(proc[p].key) \notin DOMAIN files

\* C17: the file a clear_expired unlinks is expired when it is unlinked, so
\* an entry that a set has just rewritten survives the sweep.
C17_SweepKeepsFresh ==
    [][\A p \in Procs :
          (/\ Acted(p) /\ proc[p].pc = "x_unlink"
           /\ proc[p].cur \in DOMAIN files /\ proc[p].cur \notin DOMAIN files') =>
              now - files[proc[p].cur].mtime > proc[p].T]_vars

\* C18: no step of a get changes the directory: every file keeps its
\* content and write-time, the expired, empty or truncated one included,
\* and the get of an absent, expired or empty entry is a miss; a file leaves
\* the directory only in a step of clear or of clear_expired.
C18_GetLeavesStore ==
    [][/\ \A p \in Procs :
             (Acted(p) /\ proc'[p].op = "get") =>
                 LET path == GetCachePath(proc'[p].key)
                     miss == [status |-> "miss", val |-> None, err |-> "none"]
                 IN  /\ files' = files
                     /\ (proc[p].pc = "g_exists" /\ path \notin DOMAIN files) =>
                            proc'[p].res = miss
                     /\ (/\ proc[p].pc = "g_stat" /\ path \in DOMAIN files
                         /\ now - files[path].mtime > proc[p].T) => proc'[p].res = miss
                     /\ (/\ proc[p].pc = "g_load" /\ proc[p].live
                         /\ files[path].data = <<>>) => proc'[p].res = miss
       /\ (\E path \in DOMAIN files : path \notin DOMAIN files') =>
             \E p \in Procs : Acted(p) /\ proc[p].op \in {"clear", "clear_expired"}]_vars

\* a get has missed on an entry that is expired and still in the directory
\* as it was written, the other process having done nothing
C18_Witness ==
    \E p, q \in Procs :
        /\ p # q /\ proc[q].pc = "idle"
        /\ proc[p].op = "get" /\ proc[p].pc = "done" /\ proc[p].res.status = "miss"
        /\ EntryOf(files, proc[p].key) = <<[mtime |-> 0, data |-> Dumps(V0)]>>
        /\ now > proc[p].T

\* C19: a get or a clear_expired that runs while another process runs clear
\* or clear_expired ends without raising.
C19_NoRaiseOnDeleted ==
    \A p, q \in Procs :
        (/\ p # q
         /\ proc[p].op \in {"get", "clear_expired"} /\ proc[p].pc = "done"
         /\ proc[q].op \in {"clear", "clear_expired"}) =>
            proc[p].res.status # "raised"

\* p's step ends a set(k, v) by raising, k held a valid entry when the set
\* began and that entry would still be within p's ttl, and no other process
\* has called anything
FailedSetAlone(p) ==
    /\ Acted(p) /\ proc'[p].op = "set" /\ proc'[p].pc = "done"
    /\ proc'[p].res.status = "raised"
    /\ proc'[p].had.hit
    /\ now' - proc'[p].had.mtime <= proc'[p].T
    /\ \A q \in Procs \ {p} : proc[q].pc = "idle"

\* C20 as stated: right after a set(k, v) that failed, get(k) returns the
\* value v0 that k held before.
C20_FailedSetKeepsOld ==
    [][\A p \in Procs :
          FailedSetAlone(p) =>
              CacheGet(files', now', proc'[p].T, proc'[p].key)
                  = <<TRUE, proc'[p].had.val>>]_vars

\* C20 as amended: right after a set(k, v) that failed, get(k) returns the
\* value v0 that k held before when the file could not be opened for
\* writing; when the set failed after the open (v cannot be pickled, the
\* medium rejects the write), the file is still there, truncated, and get(k)
\* is a miss.
C20_FailedSetTruncates ==
    [][\A p \in Procs :
          FailedSetAlone(p) =>
              IF proc'[p].fault = "open"
              THEN CacheGet(files', now', proc'[p].T, proc'[p].key)
                       = <<TRUE, proc'[p].had.val>>
              ELSE /\ GetCachePath(proc'[p].key) \in DOMAIN files'
                   /\ CacheGet(files', now', proc'[p].T, proc'[p].key)
                          = <<FALSE, None>>]_vars

\* a set of a value that cannot be pickled has failed on a key that held
\* V0, and has left the file empty
C20_Witness ==
    \E p, q \in Procs :
        /\ p # q /\ proc[q].pc = "idle"
        /\ proc[p].op = "set" /\ proc[p].pc = "done"
        /\ proc[p].res.err = "PicklingError"
        /\ proc[p].had.hit /\ proc[p].had.val = V0
        /\ EntryOf(files, proc[p].key) = <<[mtime |-> now, data |-> <<>>]>>

---------------------------------------------------------------------------
(* Claims about falsy results (FalsySpec) *)

\* C21 (one step): a call without force_refresh whose key holds an entry
\* within its ttl returns the stored value, falsy as it is, and does not
\* invoke the callable; a call that invokes the callable and gets a falsy
\* result returns it (a lazy sequence as the list of its items) and leaves
\* it in the store, where get finds it.
C21_Step ==
    (last'.op = "call" /\ ~last'.force) =>
        LET k == last'.key IN
        IF ValidAt(k, now)
        THEN /\ last'.invoked = 0 /\ last'.hit
             /\ last'.ret = written[k].v
             /\ ~Truthy(last'.ret)
        ELSE /\ last'.invoked = 1
             /\ last'.result \in FalsyResults
             /\ last'.ret = Materialize(last'.result).val
             /\ ~Truthy(last'.ret)
             /\ CacheGet(files', now', ttl, k) = <<TRUE, last'.ret>>

\* C21: a hit is decided by the found flag, never by the value: a falsy
\* result is stored and the next call without force_refresh within the ttl
\* returns it without invoking the callable.
C21_FalsyResultCached == [][C21_Step]_vars

\* a call has returned the stored None without invoking the callable
C21_Witness ==
    /\ last.op = "call" /\ ~last.force
    /\ last.hit /\ last.invoked = 0
    /\ last.ret = None
    /\ last.key \in DOMAIN written /\ written[last.key].v = None

---------------------------------------------------------------------------
(* Claims about AwsClient (ClientSpec) *)

\* C22: on a client with role_arn set, every session that aws_session
\* returns carries the credentials of the assumed role, also after an access
\* in which assume_role raised, and assume_role succeeds at most once: the
\* session returned is the one built from the credentials it returned.
C22_AssumedSession ==
    (Truthy(client.role_arn) /\ client.accesses > 0 /\ client.raised = "none") =>
        /\ client._role_credentials # None
        /\ client.ret.v.creds = <<client._role_credentials.AccessKeyId,
                                   client._role_credentials.SecretAccessKey,
                                   client._role_credentials.SessionToken>>
        /\ client._role_credentials = Credentials(1)

====
